---- MODULE Spec2Model ----
(***************************************************************************)
(* alertify-vision: the ObjectDetection component (face-recognition        *)
(* variant) and the faceRecognition service, as a state machine.           *)
(*                                                                         *)
(* Units: time in milliseconds; similarity scores, distances and the       *)
(* confidence threshold in hundredths (0.5 is 50).  A descriptor is a      *)
(* point on a line, in tenths: the Euclidean distance of two descriptors   *)
(* is the absolute difference of the points.                               *)
(*                                                                         *)
(* Every function of the component is a closure of one render: it reads    *)
(* the isStarted, isMuted and confidence of the render that created it,    *)
(* and the refs (videoRef, detectionIntervalRef, lastSpokenRef), which are *)
(* shared by all renders.  A start request, a timer and a detector call    *)
(* in flight therefore each carry the render they were created in.         *)
(***************************************************************************)
EXTENDS Integers, Sequences, FiniteSets, TLC

VARIABLES
    mounted,               \* the component is mounted (the refs are non-null)
    isModelLoading,        \* useState: the models are being loaded
    faceMatcher,           \* the module-level matcher: NoMatcher or a FaceMatcher
    isStarted,             \* useState: the running flag
    isMuted,               \* useState
    confidence,            \* useState: the confidence threshold
    srcObject,             \* videoRef.current.srcObject: Null or a stream
    liveStreams,           \* the streams whose tracks are live (not stopped)
    starts,                \* startCamera invocations awaiting getUserMedia or play
    nStarts,               \* startCamera invocations so far
    detectionIntervalRef,  \* the timer handle: Null or a timer
    timers,                \* the repeating timers window.setInterval has scheduled
    calls,                 \* detectFaces invocations awaiting recognizeFaces
    nCalls,                \* detectFaces invocations that passed the guard so far
    detections,            \* useState: the detection set
    overlay,               \* the boxes drawn on the canvas
    faceHistory,           \* useState: the history list
    lastSpokenRef,         \* the last-spoken memory cell
    now,                   \* Date.now()
    toast,                 \* the last notification raised
    lastTick,              \* what the last timer tick did
    cycle,                 \* what the last resumed detectFaces invocation did
    produced,              \* every history entry produced so far, newest first
    spokenAt,              \* per name, when an alert for it was last spoken
    ctx,                   \* the 2D context of the canvas: its font, and the font
                           \* each label of the last repaint was measured in
    load                   \* what the last load of models and portraits was given

vars == <<mounted, isModelLoading, faceMatcher, isStarted, isMuted, confidence,
          srcObject, liveStreams, starts, nStarts, detectionIntervalRef, timers,
          calls, nCalls, detections, overlay, faceHistory, lastSpokenRef, now,
          toast, lastTick, cycle, produced, spokenAt, ctx, load>>

Null == 0

----------------------------------------------------------------------------
(* Bounds of the model *)

MaxStartClicks == 3     \* startCamera invocations in one behaviour of Spec
MaxCycleStarts == 1     \* startCamera invocations in one behaviour of the others
MaxInFlight == 2        \* detector calls in flight at once
MaxCalls == 2           \* detection cycles in one behaviour of SpecCycle
MaxAlertCalls == 3      \* detection cycles in one behaviour of SpecAlerts
MaxHistoryCalls == 11   \* detection cycles in one behaviour of SpecHistory
MaxClock == 11          \* the clock runs to MaxClock timer periods
MaxSessionStarts == 2   \* startCamera invocations in one behaviour of SpecSession

----------------------------------------------------------------------------
(* Program constants *)

Period == 500           \* the period of the detection timer
DebounceMs == 5000      \* the debounce window of handleAudioAlerts
HistoryCap == 10        \* the entries the history keeps
MatchThreshold == 60    \* the matcher's distance threshold, 0.6
ConfidenceInit == 50    \* the initial confidence threshold, 0.5
SliderMin == 10         \* the slider's range and step
SliderMax == 90
SliderStep == 5
FullScore == 100        \* the 1 of "1 - match.distance"

Min(a, b) == IF a <= b THEN a ELSE b

Abs(a) == IF a < 0 THEN 0 - a ELSE a

SeqToSet(s) == {s[i] : i \in 1..Len(s)}

----------------------------------------------------------------------------
(* The reference identity store (src/src/data/knownFaces.ts) *)

knownFaces ==
    << [id |-> "ashal",             name |-> "ASHAL",             category |-> "user"],
       [id |-> "tom-cruise",        name |-> "Tom Cruise",        category |-> "celebrity"],
       [id |-> "taylor-swift",      name |-> "Taylor Swift",      category |-> "celebrity"],
       [id |-> "leonardo-dicaprio", name |-> "Leonardo DiCaprio", category |-> "celebrity"],
       [id |-> "beyonce",           name |-> "Beyonce",           category |-> "celebrity"] >>

KnownIndex == 1..Len(knownFaces)

\* What fetching and analysing one portrait gives: an error, no face, or the
\* descriptor of the face found.
PortraitFace(d) == [kind |-> "face", descriptor |-> d]

PortraitError == [kind |-> "error", descriptor |-> 0]

PortraitNoFace == [kind |-> "noface", descriptor |-> 0]

\* The portraits as inputs of the load: identity k's face sits at point
\* 10 * k, so that two identities are at distance 1.0.
PortraitPoint(k) == 10 * k

PortraitsAllLoaded == [k \in KnownIndex |-> PortraitFace(PortraitPoint(k))]

PortraitsNoFace == [k \in KnownIndex |-> PortraitNoFace]

PortraitsFirstFails ==
    [k \in KnownIndex |-> IF k = 1 THEN PortraitError ELSE PortraitFace(PortraitPoint(k))]

PortraitCases == {PortraitsAllLoaded, PortraitsNoFace, PortraitsFirstFails}

\* Every way the portraits can turn out: each gives its face, no face, or an
\* error.
PortraitKinds == {"face", "noface", "error"}

AllPortraitCases ==
    {[k \in KnownIndex |->
         IF kinds[k] = "face" THEN PortraitFace(PortraitPoint(k))
         ELSE IF kinds[k] = "noface" THEN PortraitNoFace
         ELSE PortraitError] : kinds \in [KnownIndex -> PortraitKinds]}

\* The descriptors of the faces a frame may show: ASHAL exactly (distance 0),
\* ASHAL at distance 0.3, Tom Cruise exactly, and a face at distance 0.6 of
\* the nearest portrait.
AshalExact == PortraitPoint(1)
AshalNear == PortraitPoint(1) + 3
TomCruiseExact == PortraitPoint(2)
Stranger == PortraitPoint(1) - 6

\* The frames of a detection cycle: no face, one face, two faces.
Frames == {<<>>, <<AshalExact>>, <<AshalNear, Stranger>>}

----------------------------------------------------------------------------
(* The service (src/src/services/faceRecognition.ts) *)

\* A loop that loses what it collected when a portrait fails.
RECURSIVE labeledDescriptorsLostOnFailure(_, _)
labeledDescriptorsLostOnFailure(portraits, k) ==
    IF k = 0 THEN <<>>
    ELSE IF portraits[k].kind # "face"
         THEN <<>>
         ELSE Append(labeledDescriptorsLostOnFailure(portraits, k - 1),
                     [label |-> knownFaces[k].id, descriptor |-> portraits[k].descriptor])

\* loadReferenceFaces, lines 43-66: one labeled descriptor for every portrait
\* that gave a face, in the order of knownFaces.
RECURSIVE labeledDescriptors(_, _)
labeledDescriptors(portraits, k) ==
    IF k = 0 THEN <<>>
    ELSE LET before == labeledDescriptors(portraits, k - 1)
         IN  IF portraits[k].kind # "face"
             THEN before
             ELSE Append(before, [label |-> knownFaces[k].id,
                                  descriptor |-> portraits[k].descriptor])

\* let faceMatcher = null, and new faceapi.FaceMatcher(labeledDescriptors, 0.6).
NoMatcher == [built |-> FALSE, labeled |-> <<>>]

FaceMatcher(labeled) == [built |-> TRUE, labeled |-> labeled]

\* loadReferenceFaces, lines 68-75: the new value of faceMatcher and the result.
loadReferenceFaces(matcher, portraits) ==
    LET labeled == labeledDescriptors(portraits, Len(knownFaces))
    IN  IF Len(labeled) = 0
        THEN [faceMatcher |-> matcher, ok |-> FALSE]
        ELSE [faceMatcher |-> FaceMatcher(labeled), ok |-> TRUE]

\* The distance of two descriptors, in hundredths.
Distance(a, b) == Abs(a - b) * 10

\* FaceMatcher.findBestMatch of face-api.js, by its contract: the nearest
\* labeled descriptor, the first one on equal distances, or "unknown" when the
\* nearest is not below the threshold.
BestIndex(labeled, q) ==
    CHOOSE i \in 1..Len(labeled) :
        /\ \A j \in 1..Len(labeled) :
               Distance(q, labeled[i].descriptor) <= Distance(q, labeled[j].descriptor)
        /\ \A j \in 1..(i - 1) :
               Distance(q, labeled[j].descriptor) > Distance(q, labeled[i].descriptor)

findBestMatch(matcher, q) ==
    LET i == BestIndex(matcher.labeled, q)
        d == Distance(q, matcher.labeled[i].descriptor)
    IN  IF d < MatchThreshold
        THEN [label |-> matcher.labeled[i].label, distance |-> d]
        ELSE [label |-> "unknown", distance |-> d]

\* recognizeFaces, lines 92-105 and 156-169: a face without identity and
\* without score.  The box of a detection is told by the point of its face.
BasicFace(q) ==
    [id |-> "unknown", name |-> "Face Detected", category |-> "unknown",
     hasScore |-> FALSE, score |-> 0, box |-> q]

\* A mapping that gives every face the identity of the nearest portrait.
MatchedFaceAlwaysKnown(matcher, q) ==
    LET i == BestIndex(matcher.labeled, q)
        known == {k \in KnownIndex : knownFaces[k].id = matcher.labeled[i].label}
        knownFace == knownFaces[CHOOSE k \in known : TRUE]
    IN  [id |-> knownFace.id, name |-> knownFace.name, category |-> knownFace.category,
         hasScore |-> TRUE,
         score |-> FullScore - Distance(q, matcher.labeled[i].descriptor), box |-> q]

\* recognizeFaces, lines 116-152.
MatchedFace(matcher, q) ==
    LET match == findBestMatch(matcher, q)
        known == {k \in KnownIndex : knownFaces[k].id = match.label}
    IN  IF match.label # "unknown" /\ known # {}
        THEN LET knownFace == knownFaces[CHOOSE k \in known : \A j \in known : k <= j]
             IN  [id |-> knownFace.id, name |-> knownFace.name,
                  category |-> knownFace.category,
                  hasScore |-> TRUE, score |-> FullScore - match.distance, box |-> q]
        ELSE [id |-> "unknown", name |-> "Unknown", category |-> "unknown",
              hasScore |-> TRUE, score |-> FullScore - match.distance, box |-> q]

\* What the detector does with one frame: both detections succeed, the plain
\* detection throws, or the detection with landmarks and descriptors throws.
DetectorFailures == {"detectFail", "recogFail"}

DetectorOutcomes == {"ok"} \cup DetectorFailures

\* A recognizeFaces that answers every failure with the empty list.
recognizeFacesEmptyOnFailure(matcher, kind, frame) ==
    IF kind \in DetectorFailures THEN <<>>
    ELSE IF ~matcher.built
         THEN [i \in 1..Len(frame) |-> BasicFace(frame[i])]
         ELSE [i \in 1..Len(frame) |-> MatchedFace(matcher, frame[i])]

\* recognizeFaces, lines 83-175: the list the promise resolves to.
recognizeFaces(matcher, kind, frame) ==
    IF kind = "detectFail" THEN <<>>
    ELSE IF ~matcher.built \/ kind = "recogFail"
         THEN [i \in 1..Len(frame) |-> BasicFace(frame[i])]
         ELSE [i \in 1..Len(frame) |-> MatchedFace(matcher, frame[i])]

----------------------------------------------------------------------------
(* The component (src/unnamed/part_001): its pure parts *)

\* The values the slider of DetectionSettings gives.
SliderValues == {v \in SliderMin..SliderMax : (v - SliderMin) % SliderStep = 0}

\* The thresholds set in a behaviour: the ends of the slider and the initial one.
SliderInputs == {SliderMin, ConfidenceInit, SliderMax}

Names == {knownFaces[k].name : k \in KnownIndex} \cup {"Unknown", "Face Detected"}

\* A filter that forgets the threshold.
filteredFacesIgnoringThreshold(recognizedFaces, threshold) ==
    SelectSeq(recognizedFaces, LAMBDA face : face.hasScore /\ face.score # 0)

\* A filter that lets the faces without score through.
filteredFacesKeepingUnscored(recognizedFaces, threshold) ==
    SelectSeq(recognizedFaces, LAMBDA face : ~face.hasScore \/ face.score > threshold)

\* A filter that keeps the faces whose score equals the threshold.
filteredFacesAtOrAbove(recognizedFaces, threshold) ==
    SelectSeq(recognizedFaces,
              LAMBDA face : face.hasScore /\ face.score # 0 /\ face.score >= threshold)

\* detectFaces, lines 208-210: face.score && face.score > confidence.
filteredFaces(recognizedFaces, threshold) ==
    SelectSeq(recognizedFaces,
              LAMBDA face : face.hasScore /\ face.score # 0 /\ face.score > threshold)

\* handleAudioAlerts, lines 340-346: the text of the utterance.
utterance(face) ==
    IF face.name = "ASHAL" THEN [text |-> "Hello ASHAL, welcome back!", name |-> ""]
    ELSE IF face.category = "celebrity"
         THEN [text |-> "Celebrity detected: ", name |-> face.name]
         ELSE [text |-> "Unknown person detected", name |-> ""]

\* A debounce whose window restarts at every suppressed detection.
alertFaceRefreshingCell(acc, face, time) ==
    IF acc.cell.label = face.name /\ time - acc.cell.time < DebounceMs
    THEN [acc EXCEPT !.said = Append(@, FALSE), !.cell.time = time]
    ELSE [cell |-> [label |-> face.name, time |-> time],
          spoken |-> Append(acc.spoken, utterance(face)),
          said |-> Append(acc.said, TRUE)]

\* A debounce on the time alone, whatever the name.
alertFaceWhateverName(acc, face, time) ==
    IF time - acc.cell.time < DebounceMs
    THEN [acc EXCEPT !.said = Append(@, FALSE)]
    ELSE [cell |-> [label |-> face.name, time |-> time],
          spoken |-> Append(acc.spoken, utterance(face)),
          said |-> Append(acc.said, TRUE)]

\* handleAudioAlerts, lines 330-357: the body of the forEach for one face, on
\* the memory cell, the utterances spoken and, per face, whether it was spoken.
alertFace(acc, face, time) ==
    IF acc.cell.label = face.name /\ time - acc.cell.time < DebounceMs
    THEN [acc EXCEPT !.said = Append(@, FALSE)]
    ELSE [cell |-> [label |-> face.name, time |-> time],
          spoken |-> Append(acc.spoken, utterance(face)),
          said |-> Append(acc.said, TRUE)]

RECURSIVE alertFaces(_, _, _, _)
alertFaces(acc, faces, i, time) ==
    IF i > Len(faces) THEN acc
    ELSE alertFaces(alertFace(acc, faces[i], time), faces, i + 1, time)

\* handleAudioAlerts, lines 325-358.
handleAudioAlerts(faces, muted, cell, time) ==
    IF muted \/ Len(faces) = 0
    THEN [cell |-> cell, spoken |-> <<>>, said |-> [i \in 1..Len(faces) |-> FALSE]]
    ELSE alertFaces([cell |-> cell, spoken |-> <<>>, said |-> <<>>], faces, 1, time)

\* The font of a new or resized canvas context, and the font drawFaces sets.
DefaultFont == "10px sans-serif"

LabelFont == "bold 14px Arial"

\* drawFaces, lines 237-323, on a context whose font is `font`: the faces
\* drawn, the font in which measureText (line 291) measured the label of each
\* for the width of its background, and the font the context is left with
\* (line 298 sets it after the measure, once per face).
drawFaces(font, faces) ==
    [faces |-> faces,
     measured |-> [i \in 1..Len(faces) |-> IF i = 1 THEN font ELSE LabelFont],
     font |-> IF Len(faces) > 0 THEN LabelFont ELSE font]

\* new Date().toLocaleTimeString(): the time of day to the second.
toLocaleTimeString(time) == time \div 1000

\* detectFaces, lines 223-226.
newEntries(faces, time) ==
    [i \in 1..Len(faces) |-> [name |-> faces[i].name, at |-> toLocaleTimeString(time)]]

\* A history that puts the new entries last.
updateHistoryAppending(prev, entries) ==
    SubSeq(prev \o entries, 1, Min(HistoryCap, Len(prev \o entries)))

\* detectFaces, lines 228-230: [...newEntries, ...prev].slice(0, 10).
updateHistory(prev, entries) ==
    SubSeq(entries \o prev, 1, Min(HistoryCap, Len(entries \o prev)))

----------------------------------------------------------------------------
(* The component: state and operations *)

Never == 0 - 1

\* The context of a canvas just created or just resized.
NewContext == [font |-> DefaultFont, measured |-> <<>>]

\* No portrait was processed; no load has ended.
NoPortraits == [k \in KnownIndex |-> [kind |-> "none", descriptor |-> 0]]

NoLoad == [ended |-> FALSE, modelsLoaded |-> FALSE, portraits |-> NoPortraits, ok |-> FALSE]

\* The render the component shows: what a closure created now reads.
CurrentRender == [isStarted |-> isStarted, isMuted |-> isMuted, confidence |-> confidence]

\* The component after its first render and the start of the mount effect:
\* loadModels, lines 37-45, has set isModelLoading and awaits the models.
Init ==
    /\ mounted = TRUE
    /\ isModelLoading = TRUE
    /\ faceMatcher = NoMatcher
    /\ isStarted = FALSE
    /\ isMuted = FALSE
    /\ confidence = ConfidenceInit
    /\ srcObject = Null
    /\ liveStreams = {}
    /\ starts = {}
    /\ nStarts = 0
    /\ detectionIntervalRef = Null
    /\ timers = {}
    /\ calls = {}
    /\ nCalls = 0
    /\ detections = <<>>
    /\ overlay = <<>>
    /\ faceHistory = <<>>
    /\ lastSpokenRef = [label |-> "", time |-> 0]
    /\ now = 0
    /\ toast = "Loading face recognition models..."
    /\ lastTick = [fired |-> FALSE, running |-> FALSE, passed |-> FALSE, timer |-> Null]
    /\ cycle = [n |-> 0, stale |-> FALSE, kind |-> "none", found |-> 0,
                matcher |-> FALSE, threshold |-> 0, muted |-> FALSE, at |-> 0,
                events |-> <<>>, lastLabel |-> "", call |-> 0, frame |-> <<>>,
                recognized |-> <<>>,
                previous |-> [call |-> 0, detections |-> <<>>]]
    /\ produced = <<>>
    /\ spokenAt = [name \in Names |-> Never]
    /\ ctx = NewContext
    /\ load = NoLoad

\* loadModels, lines 37-67, with loadFaceRecognitionModels and
\* loadReferenceFaces: the load ends.
loadModels(modelsLoaded, portraits) ==
    /\ isModelLoading
    /\ LET references == loadReferenceFaces(faceMatcher, portraits)
       IN  /\ faceMatcher' = IF modelsLoaded THEN references.faceMatcher ELSE faceMatcher
           /\ toast' = IF modelsLoaded /\ references.ok
                       THEN "Face recognition ready!"
                       ELSE "Failed to load face recognition models"
           /\ load' = [ended |-> TRUE, modelsLoaded |-> modelsLoaded,
                        portraits |-> IF modelsLoaded THEN portraits ELSE NoPortraits,
                        ok |-> modelsLoaded /\ references.ok]
    /\ isModelLoading' = FALSE
    /\ UNCHANGED <<mounted, isStarted, isMuted, confidence, srcObject, liveStreams,
                   starts, nStarts, detectionIntervalRef, timers, calls, nCalls,
                   detections, overlay, faceHistory, lastSpokenRef, now, lastTick,
                   cycle, produced, spokenAt, ctx>>

\* startCamera, lines 126-136, of the render given: up to the await of
\* getUserMedia.  The button is enabled when the models are not loading.
startCamera(render, maxClicks) ==
    /\ mounted
    /\ ~isModelLoading
    /\ nStarts < maxClicks
    /\ nStarts' = nStarts + 1
    /\ starts' = starts \cup {[id |-> nStarts + 1, pc |-> "getUserMedia", render |-> render,
                               stale |-> FALSE]}
    /\ UNCHANGED <<mounted, isModelLoading, faceMatcher, isStarted, isMuted, confidence,
                   srcObject, liveStreams, detectionIntervalRef, timers, calls, nCalls,
                   detections, overlay, faceHistory, lastSpokenRef, now, toast,
                   lastTick, cycle, produced, spokenAt,
                   ctx, load>>

\* The Start/Stop button, line 442: it starts when the render shown is idle.
clickStart ==
    /\ ~isStarted
    /\ startCamera(CurrentRender, MaxStartClicks)

\* startCamera, lines 154-157: getUserMedia rejects.
getUserMediaRejects(s) ==
    /\ s \in starts
    /\ s.pc = "getUserMedia"
    /\ starts' = starts \ {s}
    /\ toast' = "Failed to access camera. Please check permissions."
    /\ UNCHANGED <<mounted, isModelLoading, faceMatcher, isStarted, isMuted, confidence,
                   srcObject, liveStreams, nStarts, detectionIntervalRef, timers, calls,
                   nCalls, detections, overlay, faceHistory, lastSpokenRef, now,
                   lastTick, cycle, produced, spokenAt,
                   ctx, load>>

\* startCamera, lines 136-140: getUserMedia resolves with a live stream, which
\* is attached when the video element exists; then play is awaited.
getUserMediaResolves(s) ==
    /\ s \in starts
    /\ s.pc = "getUserMedia"
    /\ liveStreams' = liveStreams \cup {s.id}
    /\ srcObject' = IF mounted THEN s.id ELSE srcObject
    /\ starts' = IF mounted THEN (starts \ {s}) \cup {[s EXCEPT !.pc = "play"]}
                 ELSE starts \ {s}
    /\ UNCHANGED <<mounted, isModelLoading, faceMatcher, isStarted, isMuted, confidence,
                   nStarts, detectionIntervalRef, timers, calls, nCalls, detections,
                   overlay, faceHistory, lastSpokenRef, now, toast, lastTick, cycle,
                   produced, spokenAt,
                   ctx, load>>

\* A startDetectionLoop that does not record the timer it creates.
startDetectionLoopLosingHandle(render, id) ==
    [timers |-> {t \in timers : t.id # detectionIntervalRef}
                    \cup {[id |-> id, render |-> render]},
     detectionIntervalRef |-> detectionIntervalRef]

\* A startDetectionLoop that does not cancel the timer of the handle.
startDetectionLoopKeepingTimer(render, id) ==
    [timers |-> timers \cup {[id |-> id, render |-> render]},
     detectionIntervalRef |-> id]

\* startDetectionLoop, lines 179-187, of the render given: the timers and the
\* handle after it.
startDetectionLoop(render, id) ==
    [timers |-> {t \in timers : t.id # detectionIntervalRef}
                    \cup {[id |-> id, render |-> render]},
     detectionIntervalRef |-> id]

\* startCamera, lines 140-153: play resolves.  Assigning srcObject runs the
\* media element's load algorithm, which rejects the play promises pending:
\* play resolves only for the stream still attached.  Setting the width and
\* height of the canvas (lines 143-146) clears it and resets its context.
playResolves(s) ==
    /\ s \in starts
    /\ s.pc = "play"
    /\ srcObject = s.id
    /\ starts' = starts \ {s}
    /\ isStarted' = IF mounted THEN TRUE ELSE isStarted
    /\ toast' = "Camera started successfully!"
    /\ timers' = startDetectionLoop(s.render, s.id).timers
    /\ detectionIntervalRef' = startDetectionLoop(s.render, s.id).detectionIntervalRef
    /\ overlay' = IF mounted THEN <<>> ELSE overlay
    /\ ctx' = IF mounted THEN NewContext ELSE ctx
    /\ UNCHANGED <<mounted, isModelLoading, faceMatcher, isMuted, confidence, srcObject,
                   liveStreams, nStarts, calls, nCalls, detections,
                   faceHistory, lastSpokenRef, now, lastTick, cycle, produced, spokenAt,
                   load>>

\* startCamera, lines 154-157: play rejects.
playRejects(s) ==
    /\ s \in starts
    /\ s.pc = "play"
    /\ starts' = starts \ {s}
    /\ toast' = "Failed to access camera. Please check permissions."
    /\ UNCHANGED <<mounted, isModelLoading, faceMatcher, isStarted, isMuted, confidence,
                   srcObject, liveStreams, nStarts, detectionIntervalRef, timers, calls,
                   nCalls, detections, overlay, faceHistory, lastSpokenRef, now,
                   lastTick, cycle, produced, spokenAt,
                   ctx, load>>

\* A stopCamera that also forgets the last alert spoken.
stopCameraForgettingAlerts ==
    /\ mounted
    /\ ~isModelLoading
    /\ isStarted
    /\ liveStreams' = liveStreams \ {srcObject}
    /\ srcObject' = Null
    /\ timers' = {t \in timers : t.id # detectionIntervalRef}
    /\ detectionIntervalRef' = Null
    /\ isStarted' = FALSE
    /\ detections' = <<>>
    /\ toast' = "Camera stopped"
    /\ calls' = {[c EXCEPT !.stale = TRUE] : c \in calls}
    /\ starts' = {[s EXCEPT !.stale = TRUE] : s \in starts}
    /\ lastSpokenRef' = [label |-> "", time |-> 0]
    /\ UNCHANGED <<mounted, isModelLoading, faceMatcher, isMuted, confidence,
                   nStarts, nCalls, overlay, faceHistory, now, lastTick,
                   cycle, produced, spokenAt,
                   ctx, load>>

\* stopCamera, lines 160-177; the button offers it when the render shown is
\* running.  The calls in flight and the start requests pending are marked:
\* the stop ran while they were.
stopCamera ==
    /\ mounted
    /\ ~isModelLoading
    /\ isStarted
    /\ liveStreams' = liveStreams \ {srcObject}
    /\ srcObject' = Null
    /\ timers' = {t \in timers : t.id # detectionIntervalRef}
    /\ detectionIntervalRef' = Null
    /\ isStarted' = FALSE
    /\ detections' = <<>>
    /\ toast' = "Camera stopped"
    /\ calls' = {[c EXCEPT !.stale = TRUE] : c \in calls}
    /\ starts' = {[s EXCEPT !.stale = TRUE] : s \in starts}
    /\ UNCHANGED <<mounted, isModelLoading, faceMatcher, isMuted, confidence,
                   nStarts, nCalls, overlay, faceHistory, lastSpokenRef, now, lastTick,
                   cycle, produced, spokenAt,
                   ctx, load>>

\* The cleanup of the effect, lines 111-123: the component is unmounted.
unmount ==
    /\ mounted
    /\ mounted' = FALSE
    /\ liveStreams' = liveStreams \ {srcObject}
    /\ timers' = {t \in timers : t.id # detectionIntervalRef}
    /\ UNCHANGED <<isModelLoading, faceMatcher, isStarted, isMuted, confidence, srcObject,
                   starts, nStarts, detectionIntervalRef, calls, nCalls, detections,
                   overlay, faceHistory, lastSpokenRef, now, toast, lastTick, cycle,
                   produced, spokenAt,
                   ctx, load>>

\* The component is mounted again: a new instance with new state and refs, whose
\* mount effect (lines 36-109) starts loadModels.  The module-level faceMatcher
\* is the one the previous instance left.  The requests of the previous
\* instance have ended.
mount ==
    /\ ~mounted
    /\ starts = {}
    /\ calls = {}
    /\ mounted' = TRUE
    /\ isModelLoading' = TRUE
    /\ isStarted' = FALSE
    /\ isMuted' = FALSE
    /\ confidence' = ConfidenceInit
    /\ srcObject' = Null
    /\ detectionIntervalRef' = Null
    /\ detections' = <<>>
    /\ overlay' = <<>>
    /\ faceHistory' = <<>>
    /\ produced' = <<>>
    /\ lastSpokenRef' = [label |-> "", time |-> 0]
    /\ spokenAt' = [name \in Names |-> Never]
    /\ toast' = "Loading face recognition models..."
    /\ ctx' = NewContext
    /\ UNCHANGED <<faceMatcher, liveStreams, starts, nStarts, timers, calls, nCalls, now,
                   lastTick, cycle, load>>

\* toggleMute, lines 360-363.
toggleMute ==
    /\ mounted
    /\ isMuted' = ~isMuted
    /\ toast' = IF ~isMuted THEN "Audio alerts muted" ELSE "Audio alerts enabled"
    /\ UNCHANGED <<mounted, isModelLoading, faceMatcher, isStarted, confidence, srcObject,
                   liveStreams, starts, nStarts, detectionIntervalRef, timers, calls,
                   nCalls, detections, overlay, faceHistory, lastSpokenRef, now,
                   lastTick, cycle, produced, spokenAt,
                   ctx, load>>

\* handleConfidenceChange, lines 365-367.
handleConfidenceChange(value) ==
    /\ mounted
    /\ value # confidence
    /\ confidence' = value
    /\ UNCHANGED <<mounted, isModelLoading, faceMatcher, isStarted, isMuted, srcObject,
                   liveStreams, starts, nStarts, detectionIntervalRef, timers, calls,
                   nCalls, detections, overlay, faceHistory, lastSpokenRef, now, toast,
                   lastTick, cycle, produced, spokenAt,
                   ctx, load>>

\* Time passes.
advanceClock(periods) ==
    /\ now + periods * Period <= MaxClock * Period
    /\ now' = now + periods * Period
    /\ UNCHANGED <<mounted, isModelLoading, faceMatcher, isStarted, isMuted, confidence,
                   srcObject, liveStreams, starts, nStarts, detectionIntervalRef, timers,
                   calls, nCalls, detections, overlay, faceHistory, lastSpokenRef, toast,
                   lastTick, cycle, produced, spokenAt,
                   ctx, load>>

\* The guard of detectFaces, line 190, in the render the callback closes over.
passesGuard(render) == mounted /\ render.isStarted

\* A tick of timer t: detectFaces, lines 189-205, of the render the timer was
\* created in, up to the await of recognizeFaces.  The canvas is cleared and
\* shows the frame alone.
detectFaces(t, maxCalls) ==
    /\ t \in timers
    /\ passesGuard(t.render) => (Cardinality(calls) < MaxInFlight /\ nCalls < maxCalls)
    /\ lastTick' = [fired |-> TRUE, running |-> isStarted, passed |-> passesGuard(t.render),
                    timer |-> t.id]
    /\ calls' = IF passesGuard(t.render)
                THEN calls \cup {[id |-> nCalls + 1, render |-> t.render, stale |-> FALSE]}
                ELSE calls
    /\ nCalls' = IF passesGuard(t.render) THEN nCalls + 1 ELSE nCalls
    /\ overlay' = IF passesGuard(t.render) THEN <<>> ELSE overlay
    /\ ctx' = IF passesGuard(t.render) THEN [ctx EXCEPT !.measured = <<>>] ELSE ctx
    /\ UNCHANGED <<mounted, isModelLoading, faceMatcher, isStarted, isMuted, confidence,
                   srcObject, liveStreams, starts, nStarts, detectionIntervalRef, timers,
                   detections, faceHistory, lastSpokenRef, now, toast, cycle, produced,
                   spokenAt, load>>

\* A detectFaces that drops its result when a call started later is in flight.
resumesUnlessOvertaken(c) == \A d \in calls : d.id <= c.id

\* Whether call c rechecks anything once recognizeFaces has resolved: lines
\* 205-231 run unconditionally.
resumes(c) == TRUE

\* Per face announced or suppressed: its name, whether it was spoken, when an
\* alert for that name was last spoken before it, and the name of the face
\* handled just before it, in this cycle or an earlier one.
alertEvents(faces, said, time) ==
    [i \in 1..Len(faces) |->
        [label |-> faces[i].name,
         said |-> said[i],
         after |-> IF i > 1 THEN faces[i - 1].name ELSE cycle.lastLabel,
         prev |-> IF \E j \in 1..(i - 1) : faces[j].name = faces[i].name /\ said[j]
                  THEN time
                  ELSE spokenAt[faces[i].name]]]

\* detectFaces, lines 205-231, of call c: recognizeFaces has resolved for a
\* frame on which the detector did `kind`; the faces are filtered, set, drawn,
\* announced and entered in the history.
detectFacesResumes(c, kind, frame) ==
    /\ c \in calls
    /\ calls' = calls \ {c}
    /\ \E filtered \in {IF resumes(c)
                         THEN filteredFaces(recognizeFaces(faceMatcher, kind, frame),
                                            c.render.confidence)
                         ELSE <<>>} :
       \E alerts \in {handleAudioAlerts(filtered, c.render.isMuted, lastSpokenRef, now)} :
           /\ detections' = IF resumes(c) /\ mounted THEN filtered ELSE detections
           /\ overlay' = IF resumes(c) THEN drawFaces(ctx.font, filtered).faces ELSE overlay
           /\ ctx' = IF resumes(c)
                     THEN [font |-> drawFaces(ctx.font, filtered).font,
                           measured |-> drawFaces(ctx.font, filtered).measured]
                     ELSE ctx
           /\ lastSpokenRef' = alerts.cell
           /\ faceHistory' = IF Len(filtered) > 0 /\ mounted
                             THEN updateHistory(faceHistory, newEntries(filtered, now))
                             ELSE faceHistory
           /\ produced' = IF Len(filtered) > 0 /\ mounted
                          THEN newEntries(filtered, now) \o produced
                          ELSE produced
           /\ spokenAt' = [name \in Names |->
                              IF \E i \in 1..Len(filtered) :
                                     filtered[i].name = name /\ alerts.said[i]
                              THEN now
                              ELSE spokenAt[name]]
           /\ cycle' = [n |-> cycle.n + 1, stale |-> c.stale, kind |-> kind,
                        found |-> Len(frame), matcher |-> faceMatcher.built,
                        threshold |-> c.render.confidence, muted |-> c.render.isMuted,
                        at |-> now, events |-> alertEvents(filtered, alerts.said, now),
                        lastLabel |-> IF Len(filtered) > 0
                                      THEN filtered[Len(filtered)].name
                                      ELSE cycle.lastLabel,
                        call |-> c.id, frame |-> frame,
                        recognized |-> recognizeFaces(faceMatcher, kind, frame),
                        previous |-> [call |-> cycle.call, detections |-> detections]]
    /\ UNCHANGED <<mounted, isModelLoading, faceMatcher, isStarted, isMuted, confidence,
                   srcObject, liveStreams, starts, nStarts, detectionIntervalRef, timers,
                   nCalls, now, toast, lastTick, load>>

----------------------------------------------------------------------------
(* The component as it runs: every operation in the render that offers it *)

Next ==
    \/ \E modelsLoaded \in BOOLEAN, portraits \in PortraitCases :
           loadModels(modelsLoaded, portraits)
    \/ clickStart
    \/ \E s \in starts : getUserMediaRejects(s)
    \/ \E s \in starts : getUserMediaResolves(s)
    \/ \E s \in starts : playResolves(s)
    \/ \E s \in starts : playRejects(s)
    \/ stopCamera
    \/ unmount
    \/ toggleMute
    \/ \E t \in timers : detectFaces(t, MaxCalls)

Spec == Init /\ [][Next]_vars

----------------------------------------------------------------------------
(* The detection cycle.  Lines 191-231 of detectFaces run only in a closure   *)
(* whose render has isStarted set; the specifications below exercise          *)
(* detectFaces as a function of the render it closes over, with startCamera   *)
(* taken from such a render.                                                  *)

clickStartOfRunningRender ==
    /\ ~isStarted
    /\ starts = {}
    /\ startCamera([CurrentRender EXCEPT !.isStarted = TRUE], MaxCycleStarts)

NextCycle ==
    \/ \E portraits \in {PortraitsAllLoaded, PortraitsNoFace} : loadModels(TRUE, portraits)
    \/ clickStartOfRunningRender
    \/ \E s \in starts : getUserMediaResolves(s)
    \/ \E s \in starts : playResolves(s)
    \/ stopCamera
    \/ \E value \in SliderInputs : handleConfidenceChange(value)
    \/ \E t \in timers : detectFaces(t, MaxCalls)
    \/ \E c \in calls, frame \in Frames : detectFacesResumes(c, "ok", frame)
    \/ \E c \in calls, kind \in DetectorFailures :
           detectFacesResumes(c, kind, <<AshalExact>>)

SpecCycle == Init /\ [][NextCycle]_vars

\* The alerts: frames of ASHAL and Tom Cruise, while time passes.
AlertFrames == {<<AshalExact>>, <<TomCruiseExact>>, <<AshalExact, TomCruiseExact>>}

ClockSteps == {1, (DebounceMs \div Period) - 1}

NextAlerts ==
    \/ loadModels(TRUE, PortraitsAllLoaded)
    \/ clickStartOfRunningRender
    \/ \E s \in starts : getUserMediaResolves(s)
    \/ \E s \in starts : playResolves(s)
    \/ \E periods \in ClockSteps : advanceClock(periods)
    \/ calls = {} /\ \E t \in timers : detectFaces(t, MaxAlertCalls)
    \/ \E c \in calls, frame \in AlertFrames : detectFacesResumes(c, "ok", frame)

SpecAlerts == Init /\ [][NextAlerts]_vars

\* The history: cycles that keep one face, two faces, or none.
HistoryFrames == {<<AshalExact>>, <<TomCruiseExact, AshalExact>>, <<Stranger>>}

NextHistory ==
    \/ loadModels(TRUE, PortraitsAllLoaded)
    \/ clickStartOfRunningRender
    \/ \E s \in starts : getUserMediaResolves(s)
    \/ \E s \in starts : playResolves(s)
    \/ calls = {} /\ \E t \in timers : detectFaces(t, MaxHistoryCalls)
    \/ \E c \in calls, frame \in HistoryFrames : detectFacesResumes(c, "ok", frame)

SpecHistory == Init /\ [][NextHistory]_vars

\* The session: the camera is started, stopped and started again, and the
\* audio is muted and unmuted between two cycles.
SessionFrames == {<<AshalExact>>, <<TomCruiseExact>>}

clickStartInSession ==
    /\ ~isStarted
    /\ starts = {}
    /\ startCamera([CurrentRender EXCEPT !.isStarted = TRUE], MaxSessionStarts)

NextSession ==
    \/ loadModels(TRUE, PortraitsAllLoaded)
    \/ clickStartInSession
    \/ \E s \in starts : getUserMediaResolves(s)
    \/ \E s \in starts : playResolves(s)
    \/ stopCamera
    \/ calls = {} /\ toggleMute
    \/ calls = {} /\ \E t \in timers : detectFaces(t, MaxCalls)
    \/ (calls = {} /\ ~isStarted /\ cycle.n > 0)
           /\ \E periods \in ClockSteps : advanceClock(periods)
    \/ \E c \in calls, frame \in SessionFrames : detectFacesResumes(c, "ok", frame)

SpecSession == Init /\ [][NextSession]_vars

\* The load: every outcome of the portraits, and the component mounted again.
NextLoad ==
    \/ \E modelsLoaded \in BOOLEAN, portraits \in AllPortraitCases :
           loadModels(modelsLoaded, portraits)
    \/ unmount
    \/ mount

SpecLoad == Init /\ [][NextLoad]_vars

----------------------------------------------------------------------------
(* The object-detector variant of the component (src/unnamed/part_000).  Its  *)
(* startCamera, stopCamera, startDetectionLoop and toggleMute have the text   *)
(* of the operations above; its load, its detection cycle and its alerts are  *)
(* its own.  Normalized coordinates and scores are in hundredths.             *)

VideoWidth == 1280
VideoHeight == 720
FaceDebounceMs == 5000

\* The canvas of a running camera: lines 112-113 give it the size of the video.
canvas == [width |-> VideoWidth, height |-> VideoHeight]

\* What the detector finds in a frame, with normalized boxes.
PersonLeft == [label |-> "person", score |-> 95,
               box |-> [xmin |-> 10, ymin |-> 20, xmax |-> 40, ymax |-> 80]]

PersonRight == [label |-> "person", score |-> 99,
                box |-> [xmin |-> 50, ymin |-> 25, xmax |-> 100, ymax |-> 75]]

Cat == [label |-> "cat", score |-> 97,
        box |-> [xmin |-> 0, ymin |-> 60, xmax |-> 30, ymax |-> 100]]

DetectorResults ==
    {<<>>, <<Cat>>, <<PersonLeft>>, <<PersonLeft, Cat, PersonRight>>}

\* loadModel, lines 50-75: the pipeline is loaded or the load fails; the
\* detector is held in faceDetectorModel exactly after a load that succeeded.
loadModel(loaded) ==
    /\ isModelLoading
    /\ isModelLoading' = FALSE
    /\ toast' = IF loaded
                THEN "Face recognition model loaded successfully!"
                ELSE "Failed to load the face recognition model"
    /\ load' = [ended |-> TRUE, modelsLoaded |-> loaded, portraits |-> NoPortraits,
                ok |-> loaded]
    /\ UNCHANGED <<mounted, faceMatcher, isStarted, isMuted, confidence, srcObject,
                   liveStreams, starts, nStarts, detectionIntervalRef, timers, calls,
                   nCalls, detections, overlay, faceHistory, lastSpokenRef, now, lastTick,
                   cycle, produced, spokenAt, ctx>>

faceDetectorModel == load.ok

\* The guard of detectFaces, line 158, in the render the callback closes over.
passesGuardOfDetector(render) == faceDetectorModel /\ mounted /\ render.isStarted

\* A tick of timer t: detectFaces, lines 157-176, up to the await of the
\* detector.  The canvas is cleared and shows the frame alone.
detectFacesOfDetector(t, maxCalls) ==
    /\ t \in timers
    /\ passesGuardOfDetector(t.render) =>
           (Cardinality(calls) < MaxInFlight /\ nCalls < maxCalls)
    /\ lastTick' = [fired |-> TRUE, running |-> isStarted,
                    passed |-> passesGuardOfDetector(t.render), timer |-> t.id]
    /\ calls' = IF passesGuardOfDetector(t.render)
                THEN calls \cup {[id |-> nCalls + 1, render |-> t.render, stale |-> FALSE]}
                ELSE calls
    /\ nCalls' = IF passesGuardOfDetector(t.render) THEN nCalls + 1 ELSE nCalls
    /\ overlay' = IF passesGuardOfDetector(t.render) THEN <<>> ELSE overlay
    /\ UNCHANGED <<mounted, isModelLoading, faceMatcher, isStarted, isMuted, confidence,
                   srcObject, liveStreams, starts, nStarts, detectionIntervalRef, timers,
                   detections, faceHistory, lastSpokenRef, now, toast, cycle, produced,
                   spokenAt, ctx, load>>

\* A cycle that keeps the results of every label.
faceDetectionsOfEveryLabel(results, time) ==
    [i \in 1..Len(results) |->
        [id |-> <<"face", i - 1, time>>,
         label |-> "Face",
         score |-> results[i].score,
         box |-> [xmin |-> results[i].box.xmin * canvas.width,
                  ymin |-> results[i].box.ymin * canvas.height,
                  xmax |-> results[i].box.xmax * canvas.width,
                  ymax |-> results[i].box.ymax * canvas.height]]]

\* detectFaces, lines 179-191: faceDetections.
faceDetections(results, time) ==
    LET persons == SelectSeq(results, LAMBDA detection : detection.label = "person")
    IN  [i \in 1..Len(persons) |->
            [id |-> <<"face", i - 1, time>>,
             label |-> "Face",
             score |-> persons[i].score,
             box |-> [xmin |-> persons[i].box.xmin * canvas.width,
                      ymin |-> persons[i].box.ymin * canvas.height,
                      xmax |-> persons[i].box.xmax * canvas.width,
                      ymax |-> persons[i].box.ymax * canvas.height]]]

\* drawFaces, lines 215-289, on a context whose font is `font`: the faces
\* drawn, the font measureText (line 258) measured each label in, and the
\* font the context is left with (line 265).
drawFacesOfDetector(font, faces) ==
    [faces |-> faces,
     measured |-> [i \in 1..Len(faces) |-> IF i = 1 THEN font ELSE LabelFont],
     font |-> IF Len(faces) > 0 THEN LabelFont ELSE font]

\* handleAudioAlerts, lines 303-317: utterance.text for n faces.
utteranceOfDetector(n) ==
    IF n = 1 THEN <<"Face detected.">> ELSE <<n, " faces detected.">>

\* Alerts that are spoken without being remembered.
handleAudioAlertsOfDetectorForgetting(faces, muted, cell, time) ==
    IF muted \/ Len(faces) = 0 THEN [cell |-> cell, spoken |-> <<>>]
    ELSE IF cell.label = "Face" /\ time - cell.time < FaceDebounceMs
         THEN [cell |-> cell, spoken |-> <<>>]
         ELSE [cell |-> cell, spoken |-> <<utteranceOfDetector(Len(faces))>>]

\* handleAudioAlerts, lines 291-326: the cell after it and what was spoken.
handleAudioAlertsOfDetector(faces, muted, cell, time) ==
    IF muted \/ Len(faces) = 0 THEN [cell |-> cell, spoken |-> <<>>]
    ELSE IF cell.label = "Face" /\ time - cell.time < FaceDebounceMs
         THEN [cell |-> cell, spoken |-> <<>>]
         ELSE [cell |-> [label |-> "Face", time |-> time],
               spoken |-> <<utteranceOfDetector(Len(faces))>>]

\* detectFaces, lines 204-208: the entry of a cycle that found a face.
newEntry(time) == [text |-> "Face detected at", at |-> toLocaleTimeString(time)]

\* When an alert was last spoken by the variant.
lastAlert == IF "Face" \in DOMAIN spokenAt THEN spokenAt["Face"] ELSE Never

\* detectFaces, lines 173-212, of call c: the detector has answered.  When it
\* rejects, the catch of line 210 logs and nothing changes.
detectFacesOfDetectorResumes(c, kind, results) ==
    /\ c \in calls
    /\ calls' = calls \ {c}
    /\ \E faces \in {IF kind = "ok" THEN faceDetections(results, now) ELSE <<>>} :
       \E alerts \in {handleAudioAlertsOfDetector(faces, c.render.isMuted,
                                                  lastSpokenRef, now)} :
           /\ detections' = IF kind = "ok" /\ mounted THEN faces ELSE detections
           /\ overlay' = IF kind = "ok"
                         THEN drawFacesOfDetector(ctx.font, faces).faces
                         ELSE overlay
           /\ ctx' = IF kind = "ok"
                     THEN [font |-> drawFacesOfDetector(ctx.font, faces).font,
                           measured |-> drawFacesOfDetector(ctx.font, faces).measured]
                     ELSE ctx
           /\ lastSpokenRef' = alerts.cell
           /\ faceHistory' = IF Len(faces) > 0 /\ mounted
                             THEN updateHistory(faceHistory, <<newEntry(now)>>)
                             ELSE faceHistory
           /\ produced' = IF Len(faces) > 0 /\ mounted
                          THEN <<newEntry(now)>> \o produced
                          ELSE produced
           /\ spokenAt' = IF alerts.spoken # <<>>
                          THEN ("Face" :> now) @@ spokenAt
                          ELSE spokenAt
           /\ cycle' = [n |-> cycle.n + 1, stale |-> c.stale, kind |-> kind,
                        found |-> Len(faces), matcher |-> FALSE,
                        threshold |-> c.render.confidence, muted |-> c.render.isMuted,
                        at |-> now, events |-> <<>>, lastLabel |-> cycle.lastLabel,
                        call |-> c.id, frame |-> results, recognized |-> <<>>,
                        previous |-> [call |-> cycle.call, detections |-> detections],
                        spoken |-> alerts.spoken, prevAlert |-> lastAlert]
    /\ UNCHANGED <<mounted, isModelLoading, faceMatcher, isStarted, isMuted, confidence,
                   srcObject, liveStreams, starts, nStarts, detectionIntervalRef, timers,
                   nCalls, now, toast, lastTick, load>>

NextDetector ==
    \/ \E loaded \in BOOLEAN : loadModel(loaded)
    \/ clickStartOfRunningRender
    \/ \E s \in starts : getUserMediaResolves(s)
    \/ \E s \in starts : playResolves(s)
    \/ nStarts = 0 /\ toggleMute
    \/ calls = {} /\ \E periods \in ClockSteps : advanceClock(periods)
    \/ calls = {} /\ \E t \in timers : detectFacesOfDetector(t, MaxAlertCalls)
    \/ \E c \in calls, results \in DetectorResults :
           detectFacesOfDetectorResumes(c, "ok", results)
    \/ \E c \in calls : detectFacesOfDetectorResumes(c, "fail", <<>>)

SpecDetector == Init /\ [][NextDetector]_vars

----------------------------------------------------------------------------
(* The claims *)

\* A step in which a detectFaces invocation resumed after its await.
CycleEnds == cycle'.n # cycle.n

\* C1: every timer tick that fires while the system is running passes the
\* guard of detectFaces and invokes the detector.
C1_TickPassesGuard == (lastTick.fired /\ lastTick.running) => lastTick.passed

\* C2: when stopCamera ran while a detector call was in flight, the result of
\* that call is discarded: it changes neither the detection set nor the
\* overlay, speaks no alert and adds no history entry.
C2_LateResultDiscarded ==
    [][(CycleEnds /\ cycle'.stale) =>
           /\ detections' = detections
           /\ overlay' = overlay
           /\ lastSpokenRef' = lastSpokenRef
           /\ spokenAt' = spokenAt
           /\ faceHistory' = faceHistory]_vars

\* C3: with audio unmuted, a detection of a name is spoken exactly when no
\* alert for that name was spoken less than 5000 ms before it, whatever other
\* names were detected in between.
C3_DebouncePerLabel ==
    ~cycle.muted =>
        \A i \in 1..Len(cycle.events) :
            cycle.events[i].said <=>
                \/ cycle.events[i].prev = Never
                \/ cycle.at - cycle.events[i].prev >= DebounceMs

\* C4: every face in the detection set and on the overlay has a score at or
\* above the threshold its cycle applied, and of two thresholds the higher
\* one keeps a subset of what the lower one keeps of the same detector output.
C4_ConfidenceFilter ==
    /\ \A i \in 1..Len(detections) :
           detections[i].hasScore /\ detections[i].score >= cycle.threshold
    /\ \A i \in 1..Len(overlay) :
           overlay[i].hasScore /\ overlay[i].score >= cycle.threshold
    /\ \A frame \in Frames, kind \in DetectorOutcomes :
           \A recognizedFaces \in {recognizeFaces(faceMatcher, kind, frame)} :
               \A kept \in {[t \in SliderValues |->
                                SeqToSet(filteredFaces(recognizedFaces, t))]} :
                   \A t1 \in SliderValues, t2 \in SliderValues :
                       t1 <= t2 => kept[t2] \subseteq kept[t1]

\* C4 witness: a cycle with a matcher kept one face of a frame and dropped another.
C4_Witness ==
    /\ cycle.matcher
    /\ cycle.kind = "ok"
    /\ Len(detections) >= 1
    /\ cycle.found > Len(detections)
    /\ overlay = detections

\* C5: without a matcher, a cycle in which the detector finds k faces ends
\* with k faces named "Face Detected" of category "unknown" in the detection
\* set and on the overlay.
C5_DetectionOnlyFallback ==
    [][(CycleEnds /\ ~cycle'.matcher /\ cycle'.kind = "ok" /\ ~cycle'.stale) =>
           /\ Len(detections') = cycle'.found
           /\ \A i \in 1..Len(detections') :
                  detections'[i].name = "Face Detected" /\ detections'[i].category = "unknown"
           /\ overlay' = detections']_vars

\* C6: when stopCamera completes, every track acquired by an earlier start is
\* stopped, no timer is scheduled, the handle is null, the running flag is
\* false and the detection set is empty.
C6_StopReleasesEverything ==
    [][(isStarted /\ ~isStarted') =>
           /\ liveStreams' = {}
           /\ timers' = {}
           /\ detectionIntervalRef' = Null
           /\ detections' = <<>>]_vars

\* C7, as claimed: while the component is mounted, the timer is active exactly
\* when the running flag is set, and a stream is attached and live exactly when
\* the running flag is set.
C7_TwoStates ==
    mounted =>
        /\ (timers # {}) <=> isStarted
        /\ (srcObject # Null /\ srcObject \in liveStreams) <=> isStarted

\* C7, amended: while the component is mounted, the timer is active exactly
\* when the running flag is set, the handle names the one timer, and a stream
\* is attached and live whenever the running flag is set.
C7_TimerIffRunning ==
    mounted =>
        /\ (timers # {}) <=> isStarted
        /\ (detectionIntervalRef # Null) <=> isStarted
        /\ \A t \in timers : t.id = detectionIntervalRef
        /\ isStarted => (srcObject # Null /\ srcObject \in liveStreams)

\* C7 witness: running, after a tick of the timer, while another start is
\* still awaiting the camera.
C7_Witness ==
    /\ mounted
    /\ isStarted
    /\ timers # {}
    /\ lastTick.fired
    /\ starts # {}

\* C8: the history holds at most 10 entries, they are the most recent entries
\* produced, newest first, and after more than 10 cycles that each added an
\* entry there are exactly 10.
C8_HistoryCap ==
    /\ Len(faceHistory) <= HistoryCap
    /\ faceHistory = SubSeq(produced, 1, Min(HistoryCap, Len(produced)))
    /\ (cycle.n > HistoryCap /\ Len(produced) >= cycle.n) => Len(faceHistory) = HistoryCap

\* C8 witness: more than 10 cycles each added an entry, entries were dropped,
\* and the entries kept are not all the same.
C8_Witness ==
    /\ cycle.n > HistoryCap
    /\ Len(produced) > HistoryCap + 1
    /\ Len(faceHistory) = HistoryCap
    /\ faceHistory[1] # faceHistory[HistoryCap]
    /\ produced[Len(produced)] # faceHistory[HistoryCap]

\* C9, as claimed: a cycle whose detector call failed leaves the detection
\* set, the history and the last-spoken cell as they were.
C9_FailedCycleChangesNothing ==
    [][(CycleEnds /\ cycle'.kind \in DetectorFailures) =>
           /\ detections' = detections
           /\ faceHistory' = faceHistory
           /\ lastSpokenRef' = lastSpokenRef]_vars

\* C9, amended: a cycle whose detector call failed empties the detection set
\* and the overlay, leaves the history and the last-spoken cell as they were,
\* speaks nothing, and leaves the timer scheduled.
C9_FailedCycleEmptiesDetections ==
    [][(CycleEnds /\ cycle'.kind \in DetectorFailures) =>
           /\ detections' = <<>>
           /\ overlay' = <<>>
           /\ faceHistory' = faceHistory
           /\ lastSpokenRef' = lastSpokenRef
           /\ spokenAt' = spokenAt
           /\ timers' = timers
           /\ detectionIntervalRef' = detectionIntervalRef]_vars

\* C9 witness: a detector call failed after a cycle that had kept a face, and
\* the timer is still scheduled.
C9_Witness ==
    /\ cycle.kind \in DetectorFailures
    /\ ~cycle.stale
    /\ Len(faceHistory) > 0
    /\ detections = <<>>
    /\ timers # {}

\* A step in which the start attempt s fails: startCamera's catch runs.
StartFails(s) ==
    /\ s \in starts
    /\ \A r \in starts' : r.id # s.id
    /\ toast' = "Failed to access camera. Please check permissions."

\* C10: a start attempt that fails changes neither the running flag nor the
\* timers and leaves no camera track of its own live.
C10_FailedStartStaysIdle ==
    [][\A s \in starts :
           StartFails(s) =>
               /\ isStarted' = isStarted
               /\ timers' = timers
               /\ s.id \notin liveStreams']_vars

\* C11: once the load of the models or of the reference faces has failed, the
\* loading flag is cleared and the system never runs: the running flag stays
\* false and no timer is active.
C11_FailedLoadCannotStart ==
    (load.ended /\ ~load.ok) => (~isModelLoading /\ ~isStarted /\ timers = {})

\* The identities whose portrait gave a face in the last load.
Loaded == {k \in KnownIndex : load.portraits[k].kind = "face"}

\* The place of a label in knownFaces.
IndexOf(label) == CHOOSE k \in KnownIndex : knownFaces[k].id = label

\* C12: whatever portraits fail, a load that found a face in some portrait
\* leaves a matcher with exactly one labeled descriptor for every identity
\* whose portrait gave a face, labeled with its id, in the order of knownFaces.
C12_FailedPortraitsAreSkipped ==
    (load.ended /\ Loaded # {}) =>
        /\ faceMatcher.built
        /\ Len(faceMatcher.labeled) = Cardinality(Loaded)
        /\ \A k \in Loaded :
               \E i \in 1..Len(faceMatcher.labeled) :
                   /\ faceMatcher.labeled[i].label = knownFaces[k].id
                   /\ faceMatcher.labeled[i].descriptor = load.portraits[k].descriptor
        /\ \A i \in 1..Len(faceMatcher.labeled), j \in 1..Len(faceMatcher.labeled) :
               i < j => IndexOf(faceMatcher.labeled[i].label)
                            < IndexOf(faceMatcher.labeled[j].label)

\* C12 witness: the first portrait raised an error, the third showed no face,
\* and the matcher holds the three others.
C12_Witness ==
    /\ load.ended
    /\ load.portraits[1].kind = "error"
    /\ load.portraits[3].kind = "noface"
    /\ Loaded = {2, 4, 5}
    /\ Len(faceMatcher.labeled) = 3

\* A step in which loadModels ends.
LoadEnds == isModelLoading /\ ~isModelLoading'

\* C13: when the models are loaded and no portrait gives a descriptor, the
\* load ends without a failure notification, in the ready state.
C13_EmptySetIsNotAnError ==
    [][(LoadEnds /\ load'.modelsLoaded /\ \A k \in KnownIndex : load'.portraits[k].kind # "face") =>
           /\ toast' = "Face recognition ready!"
           /\ load'.ok]_vars

\* C15: once the matcher has been assigned no step replaces or changes it, and
\* a matcher is built from at least one labeled descriptor.
C15_MatcherBuiltOnce ==
    [][/\ faceMatcher.built => faceMatcher' = faceMatcher
       /\ faceMatcher'.built => Len(faceMatcher'.labeled) >= 1]_vars

\* C16: a tick that passes the guard while a call is in flight starts another
\* call beside it, and when a call resolves the detection set becomes the
\* result of that call, whenever the call was started.
C16_LastResolvedWins ==
    [][/\ (nCalls' # nCalls /\ calls # {}) =>
              (calls \subseteq calls' /\ Cardinality(calls') = Cardinality(calls) + 1)
       /\ CycleEnds =>
              detections' = filteredFaces(recognizeFaces(faceMatcher, cycle'.kind, cycle'.frame),
                                          cycle'.threshold)]_vars

\* C16 witness: of two overlapping calls the one started second resolved
\* first, and the detection set is the other result of the one started first.
C16_Witness ==
    /\ cycle.call = 1
    /\ cycle.previous.call = 2
    /\ Len(detections) = 1
    /\ detections # cycle.previous.detections
    /\ Len(cycle.previous.detections) = 1

C18_TeardownReleasesEverything ==
    ~mounted =>
        /\ timers = {}
        /\ starts = {} => liveStreams = {}

\* The lists of faces drawFaces is given in a cycle.
DrawnLists ==
    {filteredFaces(recognizeFaces(faceMatcher, "ok", frame), threshold) :
         frame \in Frames, threshold \in SliderInputs}

\* C19: what drawFaces draws for a list of faces on the context as earlier
\* calls left it is what it draws for that list on a new context.
C19_DrawFacesIsFullRepaint ==
    \A faces \in DrawnLists :
        /\ drawFaces(ctx.font, faces).faces = drawFaces(DefaultFont, faces).faces
        /\ drawFaces(ctx.font, faces).measured = drawFaces(DefaultFont, faces).measured

\* C20: a detection cycle started by a tick filters with the threshold the
\* slider shows at that tick.
C20_SliderReachesNextCycle ==
    [][\A c \in calls' \ calls : c.render.confidence = confidence]_vars

\* C21: a detection cycle that runs while the audio is muted speaks nothing
\* and leaves the last-spoken cell as it was.
C21_MutedSpeaksNothing ==
    [][(CycleEnds /\ isMuted) =>
           /\ lastSpokenRef' = lastSpokenRef
           /\ spokenAt' = spokenAt
           /\ \A i \in 1..Len(cycle'.events) : ~cycle'.events[i].said]_vars

\* C22: a start request that was pending when stopCamera ran changes nothing
\* when it goes on: the running flag, the timers and the live camera tracks
\* stay as they are.
C22_StopCancelsPendingStarts ==
    [][\A s \in starts :
           (s.stale /\ s \notin starts') =>
               /\ isStarted' = isStarted
               /\ timers' = timers
               /\ liveStreams' = liveStreams]_vars

\* C23: at most one timer is active, and an active timer is the one the
\* handle names, whatever starts and stops have run and whether or not the
\* component is still mounted.
C23_AtMostOneTimer ==
    /\ Cardinality(timers) <= 1
    /\ \A t \in timers : t.id = detectionIntervalRef

\* C23 witness: the timer of the first start has fired, and the timer of an
\* overlapping second start has replaced it.
C23_Witness ==
    /\ lastTick.fired
    /\ lastTick.timer = 1
    /\ detectionIntervalRef = 2
    /\ Cardinality(timers) = 1

\* The events of the cycle that ends in this step that were spoken.
SaidNow == {i \in 1..Len(cycle'.events) : cycle'.events[i].said}

\* C24: in an unmuted cycle a suppressed detection leaves the last-spoken cell
\* as it was and a spoken one sets it to its name and the time of the cycle;
\* a face detected alone is spoken exactly when the cell holds another name or
\* a time 5000 ms or more before.
C24_CellFollowsSpokenAlerts ==
    [][(CycleEnds /\ ~cycle'.muted) =>
           /\ SaidNow = {} => lastSpokenRef' = lastSpokenRef
           /\ SaidNow # {} =>
                  lastSpokenRef' =
                      [label |-> cycle'.events[CHOOSE i \in SaidNow :
                                                  \A j \in SaidNow : j <= i].label,
                       time |-> cycle'.at]
           /\ Len(cycle'.events) = 1 =>
                  (cycle'.events[1].said <=>
                       ~(/\ lastSpokenRef.label = cycle'.events[1].label
                         /\ cycle'.at - lastSpokenRef.time < DebounceMs))]_vars

\* C24 witness: a name detected alone, cycle after cycle, is spoken again
\* exactly 5000 ms after its previous alert.
C24_Witness ==
    /\ ~cycle.muted
    /\ Len(cycle.events) = 1
    /\ cycle.events[1].said
    /\ cycle.events[1].after = cycle.events[1].label
    /\ cycle.events[1].prev # Never
    /\ cycle.at - cycle.events[1].prev = DebounceMs
    /\ lastSpokenRef = [label |-> cycle.events[1].label, time |-> cycle.at]

\* The identities whose id is the label given.
Identities(label) == {k \in KnownIndex : knownFaces[k].id = label}

\* C25: with a matcher and no failure, recognizeFaces gives one face per face
\* of the frame, in order, with the box of the detection and the score
\* 1 - distance; the face has the id, name and category of the identity the
\* matcher names, or is named "Unknown", of category "unknown", when the
\* matcher answers "unknown".
C25_OneFacePerDetection ==
    (cycle.n > 0 /\ cycle.matcher /\ cycle.kind = "ok") =>
        /\ Len(cycle.recognized) = Len(cycle.frame)
        /\ \A i \in 1..Len(cycle.frame) :
               \A match \in {findBestMatch(faceMatcher, cycle.frame[i])} :
                   /\ cycle.recognized[i].box = cycle.frame[i]
                   /\ cycle.recognized[i].hasScore
                   /\ cycle.recognized[i].score = FullScore - match.distance
                   /\ match.label # "unknown" =>
                          \E k \in Identities(match.label) :
                              /\ cycle.recognized[i].id = knownFaces[k].id
                              /\ cycle.recognized[i].name = knownFaces[k].name
                              /\ cycle.recognized[i].category = knownFaces[k].category
                   /\ match.label = "unknown" =>
                          /\ cycle.recognized[i].name = "Unknown"
                          /\ cycle.recognized[i].category = "unknown"

\* C25 witness: a frame of two faces, the first matched to ASHAL, the second
\* at distance 0.6 of the nearest portrait and named "Unknown".
C25_Witness ==
    /\ cycle.matcher
    /\ cycle.kind = "ok"
    /\ Len(cycle.recognized) = 2
    /\ cycle.recognized[1].name = "ASHAL"
    /\ cycle.recognized[1].category = "user"
    /\ cycle.recognized[2].name = "Unknown"
    /\ cycle.recognized[2].score = FullScore - MatchThreshold

\* The score at the matcher's threshold: 1 - 0.6.
ScoreAtMatchThreshold == FullScore - MatchThreshold

\* The names in a list of faces.
NamesIn(faces) == {faces[i].name : i \in 1..Len(faces)}

\* C26: a recognized face of a reference identity has a score above 0.4 and
\* one named "Unknown" a score of 0.4 or less; the filter keeps no "Unknown"
\* face at any threshold of 0.4 or more, and a cycle that applies such a
\* threshold puts none in the detection set, on the overlay, among its alerts
\* or in the history.
C26_UnknownNeverPassesFilter ==
    [][CycleEnds =>
           /\ \A i \in 1..Len(cycle'.recognized) :
                  cycle'.recognized[i].hasScore =>
                      IF cycle'.recognized[i].name = "Unknown"
                      THEN cycle'.recognized[i].score <= ScoreAtMatchThreshold
                      ELSE cycle'.recognized[i].score > ScoreAtMatchThreshold
           /\ \A t \in SliderValues :
                  t >= ScoreAtMatchThreshold =>
                      "Unknown" \notin NamesIn(filteredFaces(cycle'.recognized, t))
           /\ cycle'.threshold >= ScoreAtMatchThreshold =>
                  /\ "Unknown" \notin NamesIn(detections')
                  /\ "Unknown" \notin NamesIn(overlay')
                  /\ \A i \in 1..Len(cycle'.events) : cycle'.events[i].label # "Unknown"
                  /\ "Unknown" \notin
                         NamesIn(SubSeq(produced', 1, Len(produced') - Len(produced)))
                  /\ faceHistory' = updateHistory(faceHistory,
                         SubSeq(produced', 1, Len(produced') - Len(produced)))]_vars

\* C26 witness: a cycle at the initial threshold recognized a face as
\* "Unknown" with score 0.4 beside a known one, and kept the known one alone.
C26_Witness ==
    /\ cycle.threshold = ConfidenceInit
    /\ \E i \in 1..Len(cycle.recognized) :
           cycle.recognized[i].name = "Unknown"
               /\ cycle.recognized[i].score = ScoreAtMatchThreshold
    /\ Len(detections) = 1
    /\ Len(faceHistory) >= 1

\* C27: recognizeFaces resolves to a list whatever fails in it: the empty
\* list when the plain detection fails, and when the detection with landmarks
\* and descriptors fails, one "Face Detected" face of category "unknown"
\* without score for each face the plain detection found, with its box.
C27_FailuresResolveToLists ==
    /\ \A m \in {NoMatcher, faceMatcher}, frame \in Frames :
           /\ recognizeFaces(m, "detectFail", frame) = <<>>
           /\ recognizeFaces(m, "recogFail", frame)
                  = [i \in 1..Len(frame) |->
                        [id |-> "unknown", name |-> "Face Detected",
                         category |-> "unknown", hasScore |-> FALSE,
                         score |-> 0, box |-> frame[i]]]
    /\ cycle.kind = "detectFail" => cycle.recognized = <<>>
    /\ cycle.kind = "recogFail" =>
           /\ Len(cycle.recognized) = cycle.found
           /\ \A i \in 1..cycle.found :
                  /\ cycle.recognized[i].name = "Face Detected"
                  /\ cycle.recognized[i].category = "unknown"
                  /\ ~cycle.recognized[i].hasScore
                  /\ cycle.recognized[i].box = cycle.frame[i]

\* C27 witness: with a matcher built, the detection with descriptors failed on
\* a frame of one face and the cycle got that face without score.
C27_Witness ==
    /\ cycle.kind = "recogFail"
    /\ cycle.matcher
    /\ cycle.found = 1
    /\ Len(cycle.recognized) = 1
    /\ cycle.recognized[1].name = "Face Detected"

\* C28: the step that stops the camera leaves the history, the last-spoken
\* cell, the mute flag and the threshold as they are, and changes the stream,
\* the timer handle, the running flag and the detection set; the step that
\* starts it again leaves the history and the cell as well, so the next cycle
\* suppresses a name the cell holds with a time less than 5000 ms before.
C28_StopKeepsHistoryAndCell ==
    [][/\ (isStarted /\ ~isStarted') =>
              /\ faceHistory' = faceHistory
              /\ lastSpokenRef' = lastSpokenRef
              /\ isMuted' = isMuted
              /\ confidence' = confidence
              /\ srcObject' = Null
              /\ detectionIntervalRef' = Null
              /\ detections' = <<>>
              /\ UNCHANGED <<mounted, isModelLoading, faceMatcher, overlay, now, ctx>>
       /\ (~isStarted /\ isStarted') =>
              /\ faceHistory' = faceHistory
              /\ lastSpokenRef' = lastSpokenRef
       /\ (CycleEnds /\ ~cycle'.muted) =>
              \A i \in 1..Len(cycle'.events) :
                  (/\ i = 1
                   /\ lastSpokenRef.label = cycle'.events[i].label
                   /\ cycle'.at - lastSpokenRef.time < DebounceMs)
                      => ~cycle'.events[i].said]_vars

\* C28 witness: a name was spoken, the camera was stopped and started again,
\* and the first cycle of the second timer, less than 5000 ms after the
\* alert, suppressed the name and added its entry before the earlier one.
C28_Witness ==
    /\ nStarts = 2
    /\ isStarted
    /\ lastTick.timer = nStarts
    /\ calls = {}
    /\ cycle.call = nCalls
    /\ ~cycle.stale
    /\ ~cycle.muted
    /\ Len(cycle.events) = 1
    /\ ~cycle.events[1].said
    /\ cycle.events[1].prev # Never
    /\ cycle.at > cycle.events[1].prev
    /\ cycle.at - cycle.events[1].prev < DebounceMs
    /\ lastSpokenRef = [label |-> cycle.events[1].label, time |-> cycle.events[1].prev]
    /\ Len(faceHistory) = 2

\* C29: in the object-detector variant a cycle speaks at most one alert, an
\* alert is spoken 5000 ms or more after the alert before it, whatever number
\* of faces the cycles held, and it says "Face detected." for one face and
\* "<n> faces detected." for n faces, n > 1.
C29_AlertsAreRateLimited ==
    [][CycleEnds =>
           /\ Len(cycle'.spoken) <= 1
           /\ cycle'.spoken # <<>> =>
                  /\ cycle'.found >= 1
                  /\ cycle.n > 0 /\ lastAlert # Never =>
                         cycle'.at - lastAlert >= FaceDebounceMs
                  /\ lastAlert' = cycle'.at
                  /\ cycle'.found = 1 => cycle'.spoken[1] = <<"Face detected.">>
                  /\ cycle'.found > 1 =>
                         cycle'.spoken[1] = <<cycle'.found, " faces detected.">>
           /\ cycle'.spoken = <<>> => lastAlert' = lastAlert]_vars

\* C29 witness: an alert for two faces is spoken exactly 5000 ms after the
\* alert before it, and a cycle in between was silent.
C29_Witness ==
    /\ cycle.n = 3
    /\ cycle.found = 2
    /\ cycle.spoken = <<<<2, " faces detected.">>>>
    /\ cycle.prevAlert # Never
    /\ cycle.at - cycle.prevAlert = FaceDebounceMs
    /\ Len(faceHistory) = 3

\* The places of the results labelled "person", and the k-th of them.
Persons(results) == {i \in 1..Len(results) : results[i].label = "person"}

KthPerson(results, k) ==
    CHOOSE i \in Persons(results) :
        Cardinality({j \in Persons(results) : j <= i}) = k

\* C30: in the object-detector variant the detection set of a cycle holds one
\* face per result labelled "person", in the detector's order, labelled
\* "Face", with the result's score and its box corners multiplied by the
\* width (x) and the height (y) of the canvas; the overlay shows that set, the
\* alert counts it, and a cycle without a person adds no history entry.
C30_OnlyPersonsBecomeFaces ==
    [][(CycleEnds /\ cycle'.kind = "ok") =>
           \A results \in {cycle'.frame} :
               /\ Len(detections') = Cardinality(Persons(results))
               /\ \A k \in 1..Len(detections') :
                      \A r \in {results[KthPerson(results, k)]} :
                          /\ detections'[k].label = "Face"
                          /\ detections'[k].score = r.score
                          /\ detections'[k].box.xmin = r.box.xmin * VideoWidth
                          /\ detections'[k].box.xmax = r.box.xmax * VideoWidth
                          /\ detections'[k].box.ymin = r.box.ymin * VideoHeight
                          /\ detections'[k].box.ymax = r.box.ymax * VideoHeight
               /\ overlay' = detections'
               /\ cycle'.found = Cardinality(Persons(results))
               /\ Persons(results) = {} =>
                      /\ cycle'.spoken = <<>>
                      /\ faceHistory' = faceHistory
               /\ Persons(results) # {} =>
                      faceHistory' = updateHistory(faceHistory,
                          <<[text |-> "Face detected at", at |-> cycle'.at \div 1000]>>)]_vars

\* C30 witness: of a person, a cat and a second person the cycle kept the two
\* persons, in that order.
C30_Witness ==
    /\ cycle.n > 0
    /\ cycle.kind = "ok"
    /\ Len(cycle.frame) = 3
    /\ Len(detections) = 2
    /\ detections[1].score = PersonLeft.score
    /\ detections[2].score = PersonRight.score
    /\ detections[2].box.xmax = 100 * VideoWidth
    /\ overlay = detections

====
